---- MODULE Spec2Model ----
(***************************************************************************)
(* Model of src/src/inventory.rs: the Inventory wrapper around the native   *)
(* ISteamInventory interface.  The wrapper's methods are the actions; the   *)
(* native service and the callback pump are the environment.                *)
(***************************************************************************)
EXTENDS Integers, Sequences, FiniteSets, TLC

\* ------------------------------------------------------------------ bounds
MaxQueries == 1      \* grant_promo_items / get_all_items calls in a run
MaxHandlers == 2     \* closures registered in a run
MaxForeign == 2      \* records the pump delivers that no query of the run produced
MaxDefs == 1         \* item definitions in the native catalog
MaxStrLen == 1       \* characters of a native property value
MaxQueue == 1        \* definition updates queued before the pump has to run
MaxIssued == 2       \* InventoryResultHandle values that come into being in a run

\* ------------------------------------------------------------- value sets
\* u8 values: NUL (0), the ASCII letter 'S' (83), and 0xFF, which no UTF-8
\* text holds.
Chars == {83}
Bytes == {0, 83, 255}

\* Sequences over S of length at most n.
SeqsUpTo(S, n) == UNION {[1..k -> S] : k \in 0..n}

\* Property names the caller passes (&str: valid UTF-8, NUL allowed inside).
Names == {<<83>>, <<83, 0>>}

\* Text the native side holds for a property: no NUL inside.
NativeTexts == SeqsUpTo(Chars, MaxStrLen)

\* What GetItemDefinitionProperty has to say for one (definition, name): it
\* fails, or it succeeds with the bytes it will write, which are a terminated
\* string, or nothing at all (a size of 0).
NativeProperties ==
    {[ok |-> FALSE, bytes |-> <<>>]}
    \cup {[ok |-> TRUE, bytes |-> <<>>]}
    \cup {[ok |-> TRUE, bytes |-> t \o <<0>>] : t \in NativeTexts}

\* What the native side can hold for a property when nothing is assumed of it:
\* any bytes, terminated or not, text or not.
NativeResponses ==
    {[ok |-> FALSE, bytes |-> <<>>]}
    \cup {[ok |-> TRUE, bytes |-> b] : b \in SeqsUpTo(Bytes, MaxStrLen + 1)}

ItemDefs == 1..MaxDefs
Catalogs == {c \in SeqsUpTo(ItemDefs, MaxDefs) :
                \A i, j \in DOMAIN c : i # j => c[i] # c[j]}

\* SteamInventoryResult_t values: the native side issues 1, 2, ...; a rejected
\* request leaves the wrapper's `id` at 0 or sets it to -1
\* (k_SteamInventoryResultInvalid).
IssuedIds == 1..MaxQueries
RejectedIds == {0, -1}
HandleVals == [id : IssuedIds, accepted : {TRUE}]
              \cup [id : RejectedIds, accepted : {FALSE}]

LocalUser == "local"
SteamIds == {LocalUser, "other"}

\* The EResult code a result-ready record carries: k_EResultOK.
ResultCodes == {1}

\* ------------------------------------------------------------ result values
Ok(v) == [kind |-> "Ok", val |-> v]
Err(e) == [kind |-> "Err", err |-> e]
Panic(why) == [kind |-> "Panic", why |-> why]

\* --------------------------------------------------- the callback records
\* Names of the native structs delivered by the pump.
Structs == {"SteamInventoryResultReady_t", "SteamInventoryFullUpdate_t",
            "SteamInventoryDefinitionUpdate_t", "SubmitPlayerResultResultCallback_t"}

\* k_iCallback of each native struct: the numeric tag is named, not numbered;
\* distinct structs have distinct tags.
k_iCallback(struct) == struct

\* std::mem::size_of of the native structs, in bytes.
SizeOf(struct) ==
    CASE struct = "SteamInventoryResultReady_t" -> 8        \* int32 m_handle; EResult m_result
      [] struct = "SteamInventoryFullUpdate_t" -> 4         \* int32 m_handle
      [] struct = "SteamInventoryDefinitionUpdate_t" -> 1   \* empty struct
      [] struct = "SubmitPlayerResultResultCallback_t" -> 24

\* The wrapper's event types and their Callback impls.
EventTypes == {"InventoryFullUpdate", "InventoryResultReady", "InventoryDefinitionUpdate"}

InventoryFullUpdate_ID == k_iCallback("SteamInventoryFullUpdate_t")
\* The slip of taking SIZE from another struct.
InventoryFullUpdate_SIZE_OfResultReady == SizeOf("SteamInventoryResultReady_t")
InventoryFullUpdate_SIZE == SizeOf("SteamInventoryFullUpdate_t")
InventoryResultReady_ID == k_iCallback("SubmitPlayerResultResultCallback_t")
InventoryResultReady_SIZE == SizeOf("SteamInventoryResultReady_t")
InventoryDefinitionUpdate_ID == k_iCallback("SteamInventoryDefinitionUpdate_t")
InventoryDefinitionUpdate_SIZE == SizeOf("SteamInventoryDefinitionUpdate_t")

ID(T) ==
    CASE T = "InventoryFullUpdate" -> InventoryFullUpdate_ID
      [] T = "InventoryResultReady" -> InventoryResultReady_ID
      [] T = "InventoryDefinitionUpdate" -> InventoryDefinitionUpdate_ID

SIZE(T) ==
    CASE T = "InventoryFullUpdate" -> InventoryFullUpdate_SIZE
      [] T = "InventoryResultReady" -> InventoryResultReady_SIZE
      [] T = "InventoryDefinitionUpdate" -> InventoryDefinitionUpdate_SIZE

\* The native struct each event type stands for (its doc alias).
StructOf(T) ==
    CASE T = "InventoryFullUpdate" -> "SteamInventoryFullUpdate_t"
      [] T = "InventoryResultReady" -> "SteamInventoryResultReady_t"
      [] T = "InventoryDefinitionUpdate" -> "SteamInventoryDefinitionUpdate_t"

\* -------------------------------------------------------- std operations
\* A Vec: `cap` allocated elements, of which the first `len` are the Vec's.
\* Memory beyond `len` belongs to the allocation, not to the Vec's contents.
Vec_with_capacity(n) ==
    [cap |-> n, len |-> 0, buf |-> [i \in 1..n |-> "uninit"]]

\* A write of `data` through Vec::as_mut_ptr: it lands in the allocation and
\* leaves the Vec's length alone.
WriteThroughPtr(vec, data) ==
    [vec EXCEPT !.buf = [i \in 1..vec.cap |->
                            IF i <= Len(data) THEN data[i] ELSE vec.buf[i]]]

\* Vec::into_iter().collect(): the elements of the Vec, which are its first
\* `len`.
into_iter(vec) == SubSeq(vec.buf, 1, vec.len)

\* A byte as the c_char (i8) the native side stores, and `ch as u8`.
AsCChar(b) == IF b > 127 THEN b - 256 ELSE b
AsU8(ch) == ch % 256

\* CString::new: the bytes plus a terminator, an error on a NUL inside.
CString_new(name) ==
    IF \E i \in DOMAIN name : name[i] = 0
    THEN Err("NulError")
    ELSE Ok(name \o <<0>>)

\* CStr::from_bytes_with_nul: exactly one NUL, and it is the last byte.
CStr_from_bytes_with_nul(bytes) ==
    LET nuls == {i \in DOMAIN bytes : bytes[i] = 0} IN
    IF nuls = {} THEN Err("NotNulTerminated")
    ELSE IF \E i \in nuls : i < Len(bytes) THEN Err("InteriorNul")
    ELSE Ok(bytes)

\* CStr::to_str: the bytes before the terminator, which must be UTF-8.
to_str(cstr) ==
    LET body == SubSeq(cstr, 1, Len(cstr) - 1) IN
    IF \E i \in DOMAIN body : body[i] > 127
    THEN Err("Utf8Error")
    ELSE Ok(body)

\* The newtype constructor InventoryItemDefinition(SteamItemDef_t).
InventoryItemDefinition(d) == [SteamItemDef_t |-> d]

\* ------------------------------------------------------ the native calls
Min(a, b) == IF a < b THEN a ELSE b

\* SteamAPI_ISteamInventory_GetItemDefinitionProperty with a destination of
\* `cap` bytes (or none: `hasDest` FALSE) and *punValueBufferSizeOut = size.
\* It reports failure and writes nothing, or the size it needs, or copies.
GetItemDefinitionProperty(native, hasDest, size) ==
    IF ~native.ok THEN [ok |-> FALSE, size |-> size, data |-> <<>>]
    ELSE IF ~hasDest THEN [ok |-> TRUE, size |-> Len(native.bytes), data |-> <<>>]
    ELSE LET n == Min(size, Len(native.bytes)) IN
         [ok |-> TRUE, size |-> n,
          data |-> [i \in 1..n |-> AsCChar(native.bytes[i])]]

\* SteamAPI_ISteamInventory_GetItemDefinitionIDs: FALSE while the catalog is
\* not loaded or when the destination is too small; otherwise the count, and
\* the ids when there is a destination.
GetItemDefinitionIDs(isLoaded, cat, hasDest, count) ==
    IF ~isLoaded THEN [ok |-> FALSE, count |-> count, data |-> <<>>]
    ELSE IF ~hasDest THEN [ok |-> TRUE, count |-> Len(cat), data |-> <<>>]
    ELSE IF count < Len(cat) THEN [ok |-> FALSE, count |-> count, data |-> <<>>]
    ELSE [ok |-> TRUE, count |-> Len(cat), data |-> cat]

\* ------------------------------------------------- the two-phase readers
\* Inventory::get_item_definition_property, as a function of the name and of
\* what the native side holds at the size query and at the fill: the native
\* calls made, what they reported, and the outcome.
PropertyOutcomeOver(name, atQuery, atFill) ==
    LET cname == CString_new(name) IN
    IF cname.kind = "Err"
    THEN [calls |-> 0, query |-> "none", fill |-> "none",
          result |-> Panic("CString::new(name).unwrap()")]
    ELSE
    LET query == GetItemDefinitionProperty(atQuery, FALSE, 0)
        value == Vec_with_capacity(query.size)
        fill == GetItemDefinitionProperty(atFill, TRUE, query.size)
        filled == WriteThroughPtr(value, fill.data)
        items == into_iter(filled)
        bytes == [i \in DOMAIN items |-> AsU8(items[i])]
        cstr == CStr_from_bytes_with_nul(bytes)
        result ==
            IF cstr.kind = "Err"
            THEN Panic("from_bytes_with_nul(..).unwrap()")
            ELSE LET str == to_str(cstr.val) IN
                 IF str.kind = "Err"
                 THEN Panic("to_str().unwrap()")
                 ELSE Ok(str.val)
    IN  [calls |-> 2, query |-> query, fill |-> fill, result |-> result]

\* The same with a native side that holds one thing throughout the call.
PropertyOutcome(name, native) == PropertyOutcomeOver(name, native, native)

\* The slip of not looking at what the first call reported.
DefinitionsOutcome_Unchecked(isLoaded, cat, debug) ==
    LET first == GetItemDefinitionIDs(isLoaded, cat, FALSE, 0)
        definitions == Vec_with_capacity(first.count)
        second == GetItemDefinitionIDs(isLoaded, cat, TRUE, first.count)
        items == into_iter(WriteThroughPtr(definitions, second.data))
    IN  [calls |-> 2,
         result |-> Ok([i \in DOMAIN items |-> InventoryItemDefinition(items[i])])]

\* Inventory::get_item_definitions, as a function of the native catalog at
\* the first and at the second call and of the build (debug_assert! is
\* compiled in debug builds only).
DefinitionsOutcomeOver(atFirst, atSecond, debug) ==
    LET first == GetItemDefinitionIDs(atFirst.loaded, atFirst.catalog, FALSE, 0) IN
    IF ~first.ok
    THEN [calls |-> 1, first |-> first, second |-> "none",
          result |-> Err("ItemDefinitionsNotLoaded")]
    ELSE
    LET definitions == Vec_with_capacity(first.count)
        second == GetItemDefinitionIDs(atSecond.loaded, atSecond.catalog, TRUE,
                                       first.count)
        filled == WriteThroughPtr(definitions, second.data)
        items == into_iter(filled)
    IN  [calls |-> 2, first |-> first, second |-> second,
         result |-> IF debug /\ ~second.ok
                    THEN Panic("debug_assert!(items_were_loaded)")
                    ELSE Ok([i \in DOMAIN items |->
                                InventoryItemDefinition(items[i])])]

\* The same with a catalog that does not change during the call.
DefinitionsOutcome(isLoaded, cat, debug) ==
    DefinitionsOutcomeOver([loaded |-> isLoaded, catalog |-> cat],
                           [loaded |-> isLoaded, catalog |-> cat], debug)

\* ----------------------------------------------------------------- state
VARIABLES
    debugBuild,     \* cfg(debug_assertions) of the build
    nextHandle,     \* native: the next SteamInventoryResult_t it issues
    results,        \* native: result ids issued and not destroyed
    pending,        \* native: queries whose completion it has not yet posted
    loadRequested,  \* native: LoadItemDefinitions has been called
    loaded,         \* native: the item definitions are loaded
    catalog,        \* native: the loaded item definition ids
    queue,          \* native: completion records posted, awaiting the pump
    foreign,        \* number of records delivered that no call of the run produced
    callbacks,      \* Inner.callbacks: event type -> handlers, in registration order
    registered,     \* handler -> the event type its registration call returned for
    delivery,       \* the record the pump delivered last and what became of it
    skipped,        \* number of records the pump has rejected as malformed
    defUpdateFired, \* a DefinitionUpdate event has been delivered
    taken,          \* calls of the last delivery whose handler kept the event's handle
    held,           \* InventoryResultHandle values the caller owns: value -> count
    nativeLog,      \* raw values passed to native DestroyResult / CheckResultSteamID
    issued,         \* raw id -> number of handle values made with it
    nativeCalls,    \* native function, raw id -> number of calls made
    last,           \* the facade call made last and what it returned
    panicked        \* a facade call panicked

vars == <<debugBuild, nextHandle, results, pending, loadRequested, loaded, catalog,
          queue, foreign, callbacks, registered, delivery, skipped, defUpdateFired, taken,
          held, nativeLog, issued, nativeCalls, last, panicked>>

nativeVars == <<nextHandle, results, pending, loadRequested, loaded, catalog, queue>>
channelVars == <<foreign, callbacks, registered, delivery, skipped, defUpdateFired,
                 taken>>
handleVars == <<held, nativeLog, issued, nativeCalls>>

\* The raw values a handle can carry, and the native functions that take one.
RawIds == IssuedIds \cup RejectedIds
NativeFns == {"DestroyResult", "CheckResultSteamID"}

Handlers == 1..MaxHandlers

Init ==
    /\ debugBuild \in BOOLEAN
    /\ nextHandle = 1
    /\ results = {}
    /\ pending = {}
    /\ loadRequested = FALSE
    /\ loaded = FALSE
    /\ catalog = <<>>
    /\ queue = <<>>
    /\ foreign = 0
    /\ callbacks = [T \in EventTypes |-> <<>>]
    /\ registered = [h \in Handlers |-> "none"]
    /\ delivery = [status |-> "none"]
    /\ skipped = 0
    /\ defUpdateFired = FALSE
    /\ taken = {}
    /\ held = [v \in HandleVals |-> 0]
    /\ nativeLog = {}
    /\ issued = [id \in RawIds |-> 0]
    /\ nativeCalls = [fn \in NativeFns, id \in RawIds |-> 0]
    /\ last = [op |-> "none"]
    /\ panicked = FALSE

\* ------------------------------------------------- the completion channel
\* A record as the pump hands it over: its tag, its byte length and its
\* leading 32-bit words.
Record(tag, len, raw) == [tag |-> tag, len |-> len, raw |-> raw]

\* SteamError::from(EResult).
SteamError_from(code) == [SteamError |-> code]

\* Callback::from_raw of each event type: the typed event read from the raw
\* struct.
from_raw(T, raw) ==
    CASE T = "InventoryFullUpdate" ->
            [type |-> T, handle |-> raw[1]]
      [] T = "InventoryResultReady" ->
            [type |-> T, handle |-> raw[1], result |-> SteamError_from(raw[2])]
      [] T = "InventoryDefinitionUpdate" ->
            [type |-> T]

\* register_callback: the handler joins the handlers of the event type C, at
\* the end, and stays.
register_callback(cbs, T, handler) ==
    [cbs EXCEPT ![T] = Append(@, handler)]

\* The delivery of one record: the event type is found by its tag, the length
\* is held against the type's SIZE, the record is decoded, and every handler
\* of the type runs, in order, each on its own.
Dispatch(cbs, rec) ==
    LET match == {T \in EventTypes : ID(T) = rec.tag} IN
    IF match = {}
    THEN [status |-> "ignored", rec |-> rec, type |-> "none", cbs |-> cbs,
          calls |-> <<>>]
    ELSE LET T == CHOOSE T \in match : TRUE IN
         IF rec.len # SIZE(T)
         THEN [status |-> "malformed", rec |-> rec, type |-> T, cbs |-> cbs,
               calls |-> <<>>]
         ELSE [status |-> "dispatched", rec |-> rec, type |-> T, cbs |-> cbs,
               calls |-> [i \in DOMAIN cbs[T] |->
                            [handler |-> cbs[T][i].id,
                             event |-> from_raw(T, rec.raw),
                             outcome |-> IF cbs[T][i].panics
                                         THEN "panicked" ELSE "returned"]]]

Deliver(rec) ==
    /\ delivery' = Dispatch(callbacks, rec)
    /\ skipped' = skipped + (IF delivery'.status = "malformed" THEN 1 ELSE 0)
    /\ defUpdateFired' = (defUpdateFired
                          \/ (delivery'.status = "dispatched"
                              /\ delivery'.type = "InventoryDefinitionUpdate"))
    /\ taken' = {}

\* --------------------------------------------------- the native service
\* Records the pump can deliver without any call of the run having caused
\* them: records of another kind, records whose length is not that of their
\* struct, and unsolicited full updates.  Result-ready and definition-update
\* records of the right length come from the native service alone.
Lens == {SizeOf(st) : st \in Structs}
\* The first word of such a record: the first id the native side issues.
ForeignWords == {1}
RawOf(len, w) == SubSeq(<<w, 1>>, 1, Min(len \div 4, 2))
ForeignRecords ==
    {Record(k_iCallback(st), len, RawOf(len, w)) :
        st \in Structs, len \in Lens, w \in ForeignWords}
    \ {r \in [tag : {k_iCallback("SteamInventoryResultReady_t"),
                     k_iCallback("SteamInventoryDefinitionUpdate_t")},
              len : Lens, raw : SeqsUpTo(ForeignWords, 2)] :
         \E st \in Structs : r.tag = k_iCallback(st) /\ r.len = SizeOf(st)}

HeldCount ==
    Cardinality({p \in HandleVals \X (1..MaxIssued) : p[2] <= held[p[1]]})

\* The number of handle values made so far.
IssuedCount ==
    Cardinality({p \in RawIds \X (1..MaxIssued) : p[2] <= issued[p[1]]})

\* The completion of a query: the native service posts its result-ready record.
NativeResultReady(id, code) ==
    /\ ~panicked
    /\ id \in pending
    /\ pending' = pending \ {id}
    /\ queue' = Append(queue, Record(k_iCallback("SteamInventoryResultReady_t"),
                                     SizeOf("SteamInventoryResultReady_t"),
                                     <<id, code>>))
    /\ UNCHANGED <<debugBuild, nextHandle, results, loadRequested, loaded, catalog,
                   channelVars, handleVars, last, panicked>>

\* The native service announces that the whole inventory is in a result: it
\* posts the full-update record carrying the result's id.
NativeFullUpdate(id) ==
    /\ ~panicked
    /\ id \in results
    /\ Len(queue) < MaxQueue
    /\ queue' = Append(queue, Record(k_iCallback("SteamInventoryFullUpdate_t"),
                                     SizeOf("SteamInventoryFullUpdate_t"),
                                     <<id>>))
    /\ UNCHANGED <<debugBuild, nextHandle, results, pending, loadRequested, loaded,
                   catalog, channelVars, handleVars, last, panicked>>

\* The end of a catalog load: the definitions are there and the native
\* service posts the definition-update record.
NativeDefinitionsLoaded(cat) ==
    /\ ~panicked
    /\ loadRequested /\ ~loaded
    /\ Len(queue) < MaxQueue
    /\ loaded' = TRUE
    /\ catalog' = cat
    /\ queue' = Append(queue, Record(k_iCallback("SteamInventoryDefinitionUpdate_t"),
                                     SizeOf("SteamInventoryDefinitionUpdate_t"),
                                     <<>>))
    /\ UNCHANGED <<debugBuild, nextHandle, results, pending, loadRequested,
                   channelVars, handleVars, last, panicked>>

\* ---------------------------------------------------------------- the pump
PumpNative ==
    /\ ~panicked
    /\ queue # <<>>
    /\ Deliver(Head(queue))
    /\ queue' = Tail(queue)
    /\ UNCHANGED <<debugBuild, nextHandle, results, pending, loadRequested, loaded,
                   catalog, foreign, callbacks, registered, handleVars, last, panicked>>

PumpForeign(rec) ==
    /\ ~panicked
    /\ foreign < MaxForeign
    /\ Deliver(rec)
    /\ foreign' = foreign + 1
    /\ UNCHANGED <<debugBuild, nativeVars, callbacks, registered, handleVars, last,
                   panicked>>

\* ------------------------------------------------------------- the facade
\* The slip of finishing the query inside the call: the completion record is
\* posted before the call returns.
SubmitQuery_Completing(op, accepted, id) ==
    /\ ~panicked
    /\ IF accepted
       THEN /\ nextHandle <= MaxQueries
            /\ id = nextHandle
       ELSE id \in RejectedIds
    /\ HeldCount < MaxQueries
    /\ IssuedCount < MaxIssued
    /\ IF accepted
       THEN /\ nextHandle' = nextHandle + 1
            /\ results' = results \cup {id}
            /\ queue' = Append(queue, Record(k_iCallback("SteamInventoryResultReady_t"),
                                             SizeOf("SteamInventoryResultReady_t"),
                                             <<id, 1>>))
            /\ UNCHANGED pending
       ELSE UNCHANGED <<nextHandle, results, pending, queue>>
    /\ held' = [held EXCEPT ![[id |-> id, accepted |-> accepted]] = @ + 1]
    /\ issued' = [issued EXCEPT ![id] = @ + 1]
    /\ last' = [op |-> op, result |-> Ok([accepted |-> accepted, handle |-> id])]
    /\ UNCHANGED <<debugBuild, loadRequested, loaded, catalog, channelVars,
                   nativeLog, nativeCalls, panicked>>

\* The body shared by grant_promo_items and get_all_items: one native submit
\* call, whose verdict and id are handed back as they are.
SubmitQuery(op, accepted, id) ==
    /\ ~panicked
    /\ IF accepted
       THEN /\ nextHandle <= MaxQueries
            /\ id = nextHandle
       ELSE id \in RejectedIds
    /\ HeldCount < MaxQueries
    /\ IssuedCount < MaxIssued
    /\ IF accepted
       THEN /\ nextHandle' = nextHandle + 1
            /\ results' = results \cup {id}
            /\ pending' = pending \cup {id}
       ELSE UNCHANGED <<nextHandle, results, pending>>
    /\ held' = [held EXCEPT ![[id |-> id, accepted |-> accepted]] = @ + 1]
    /\ issued' = [issued EXCEPT ![id] = @ + 1]
    /\ last' = [op |-> op, result |-> Ok([accepted |-> accepted, handle |-> id])]
    /\ UNCHANGED <<debugBuild, loadRequested, loaded, catalog, queue, channelVars,
                   nativeLog, nativeCalls, panicked>>

grant_promo_items ==
    \E accepted \in BOOLEAN, id \in IssuedIds \cup RejectedIds :
        SubmitQuery("grant_promo_items", accepted, id)

get_all_items ==
    \E accepted \in BOOLEAN, id \in IssuedIds \cup RejectedIds :
        SubmitQuery("get_all_items", accepted, id)

\* The handle is moved into the call: the caller has it no longer.
\* The slip of remembering released handles: a raw value released before is
\* not forwarded to the native side again.
destroy_result_Once(result) ==
    /\ ~panicked
    /\ held[result] > 0
    /\ held' = [held EXCEPT ![result] = @ - 1]
    /\ nativeLog' = nativeLog \cup {[fn |-> "DestroyResult", raw |-> result.id,
                                     accepted |-> result.accepted]}
    /\ nativeCalls' = IF nativeCalls["DestroyResult", result.id] > 0
                      THEN nativeCalls
                      ELSE [nativeCalls EXCEPT !["DestroyResult", result.id] = @ + 1]
    /\ results' = results \ {result.id}
    /\ last' = [op |-> "destroy_result", handle |-> result]
    /\ UNCHANGED <<debugBuild, nextHandle, pending, loadRequested, loaded, catalog,
                   queue, channelVars, issued, panicked>>

destroy_result(result) ==
    /\ ~panicked
    /\ held[result] > 0
    /\ held' = [held EXCEPT ![result] = @ - 1]
    /\ nativeLog' = nativeLog \cup {[fn |-> "DestroyResult", raw |-> result.id,
                                     accepted |-> result.accepted]}
    /\ nativeCalls' = [nativeCalls EXCEPT !["DestroyResult", result.id] = @ + 1]
    /\ results' = results \ {result.id}
    /\ last' = [op |-> "destroy_result", handle |-> result]
    /\ UNCHANGED <<debugBuild, nextHandle, pending, loadRequested, loaded, catalog,
                   queue, channelVars, issued, panicked>>

\* The slip of taking the handle by reference: the caller keeps the value.
check_steam_id_Borrowing(result, steam_id) ==
    /\ ~panicked
    /\ held[result] > 0
    /\ nativeLog' = nativeLog \cup {[fn |-> "CheckResultSteamID", raw |-> result.id,
                                     accepted |-> result.accepted]}
    /\ nativeCalls' = [nativeCalls EXCEPT !["CheckResultSteamID", result.id] = @ + 1]
    /\ last' = [op |-> "check_steam_id", handle |-> result,
                result |-> (result.id \in results /\ steam_id = LocalUser)]
    /\ UNCHANGED <<debugBuild, nativeVars, channelVars, held, issued, panicked>>

check_steam_id(result, steam_id) ==
    /\ ~panicked
    /\ held[result] > 0
    /\ held' = [held EXCEPT ![result] = @ - 1]
    /\ nativeLog' = nativeLog \cup {[fn |-> "CheckResultSteamID", raw |-> result.id,
                                     accepted |-> result.accepted]}
    /\ nativeCalls' = [nativeCalls EXCEPT !["CheckResultSteamID", result.id] = @ + 1]
    /\ last' = [op |-> "check_steam_id", handle |-> result,
                result |-> (result.id \in results /\ steam_id = LocalUser)]
    /\ UNCHANGED <<debugBuild, nativeVars, channelVars, issued, panicked>>

load_item_definitions ==
    /\ ~panicked
    /\ loadRequested' = TRUE
    /\ last' = [op |-> "load_item_definitions"]
    /\ UNCHANGED <<debugBuild, nextHandle, results, pending, loaded, catalog, queue,
                   channelVars, handleVars, panicked>>

get_item_definitions ==
    /\ ~panicked
    /\ LET out == DefinitionsOutcome(loaded, catalog, debugBuild) IN
        /\ last' = [op |-> "get_item_definitions", loaded |-> loaded,
                    catalog |-> catalog, loadCalled |-> loadRequested,
                    updateFired |-> defUpdateFired, calls |-> out.calls,
                    result |-> out.result]
        /\ panicked' = (out.result.kind = "Panic")
    /\ UNCHANGED <<debugBuild, nativeVars, channelVars, handleVars>>

get_item_definition_property(item_definition, name, native) ==
    /\ ~panicked
    /\ LET out == PropertyOutcome(name, native) IN
        /\ last' = [op |-> "get_item_definition_property",
                    item_definition |-> item_definition, name |-> name,
                    native |-> native, calls |-> out.calls, result |-> out.result]
        /\ panicked' = (out.result.kind = "Panic")
    /\ UNCHANGED <<debugBuild, nativeVars, channelVars, handleVars>>

\* The two readers while the native side changes under them (the Steam
\* client reloads its catalog on its own): what it holds at the second native
\* call need not be what it held at the first.
get_item_definitions_during_reload(isLoaded, cat) ==
    /\ ~panicked
    /\ LET out == DefinitionsOutcomeOver([loaded |-> loaded, catalog |-> catalog],
                                         [loaded |-> isLoaded, catalog |-> cat],
                                         debugBuild) IN
        /\ last' = [op |-> "get_item_definitions", loaded |-> loaded,
                    catalog |-> catalog, loadCalled |-> loadRequested,
                    updateFired |-> defUpdateFired, calls |-> out.calls,
                    first |-> out.first, second |-> out.second,
                    result |-> out.result]
        /\ panicked' = (out.result.kind = "Panic")
        /\ IF out.calls = 2
           THEN loaded' = isLoaded /\ catalog' = cat
           ELSE UNCHANGED <<loaded, catalog>>
    /\ UNCHANGED <<debugBuild, nextHandle, results, pending, loadRequested, queue,
                   channelVars, handleVars>>

get_item_definition_property_during_reload(item_definition, name, atQuery, atFill) ==
    /\ ~panicked
    /\ LET out == PropertyOutcomeOver(name, atQuery, atFill) IN
        /\ last' = [op |-> "get_item_definition_property",
                    item_definition |-> item_definition, name |-> name,
                    native |-> atQuery, atFill |-> atFill, calls |-> out.calls,
                    query |-> out.query, fill |-> out.fill, result |-> out.result]
        /\ panicked' = (out.result.kind = "Panic")
    /\ UNCHANGED <<debugBuild, nativeVars, channelVars, handleVars>>

\* The handler the next registration call registers.
NextHandler == CHOOSE h \in Handlers :
                  /\ registered[h] = "none"
                  /\ \A g \in Handlers : g < h => registered[g] # "none"

\* The closures the caller registers are handlers 1, 2, ... in the order of
\* the calls; the second one panics whenever it is run.
Panics(h) == h = 2

\* The slip of keeping one handler per event type: a registration replaces
\* the handler that was there.
Register_Replacing(T) ==
    /\ ~panicked
    /\ \E h \in Handlers : registered[h] = "none"
    /\ callbacks' = [callbacks EXCEPT ![T] =
                        <<[id |-> NextHandler, panics |-> Panics(NextHandler)]>>]
    /\ registered' = [registered EXCEPT ![NextHandler] = T]
    /\ UNCHANGED <<debugBuild, nativeVars, foreign, delivery, skipped, defUpdateFired,
                   taken, handleVars, last, panicked>>

Register(T) ==
    /\ ~panicked
    /\ \E h \in Handlers : registered[h] = "none"
    /\ callbacks' = register_callback(callbacks, T,
                                      [id |-> NextHandler, panics |-> Panics(NextHandler)])
    /\ registered' = [registered EXCEPT ![NextHandler] = T]
    /\ UNCHANGED <<debugBuild, nativeVars, foreign, delivery, skipped, defUpdateFired,
                   taken, handleVars, last, panicked>>

inventory_result_ready_callback == Register("InventoryResultReady")

inventory_full_update_callback == Register("InventoryFullUpdate")

\* A handler that ran on an event carrying a handle keeps it: the event is
\* passed to the closure by value, and the InventoryResultHandle from_raw made
\* for the call is the closure's to use from then on.
TakeEventHandle(i) ==
    /\ ~panicked
    /\ delivery.status = "dispatched"
    /\ delivery.type \in {"InventoryFullUpdate", "InventoryResultReady"}
    /\ i \in DOMAIN delivery.calls
    /\ i \notin taken
    /\ IssuedCount < MaxIssued
    /\ LET raw == delivery.calls[i].event.handle IN
        /\ held' = [held EXCEPT ![[id |-> raw, accepted |-> raw \notin RejectedIds]] = @ + 1]
        /\ issued' = [issued EXCEPT ![raw] = @ + 1]
    /\ taken' = taken \cup {i}
    /\ UNCHANGED <<debugBuild, nativeVars, foreign, callbacks, registered, delivery,
                   skipped, defUpdateFired, nativeLog, nativeCalls, last, panicked>>

\* ------------------------------------------------------------ the system
\* The catalog and its two-phase readers, with the pump that announces the
\* load.
NextCatalog ==
    \/ load_item_definitions
    \/ get_item_definitions
    \/ \E d \in ItemDefs, n \in Names, p \in NativeProperties :
          get_item_definition_property(d, n, p)
    \/ \E cat \in Catalogs : NativeDefinitionsLoaded(cat)
    \/ PumpNative

\* The catalog and its readers with a native side that is not at rest.
NextReload ==
    \/ load_item_definitions
    \/ \E cat \in Catalogs : NativeDefinitionsLoaded(cat)
    \/ PumpNative
    \/ \E isLoaded \in BOOLEAN, cat \in Catalogs :
          get_item_definitions_during_reload(isLoaded, cat)
    \/ \E d \in ItemDefs, n \in Names, p \in NativeProperties, q \in NativeResponses :
          get_item_definition_property_during_reload(d, n, p, q)

\* The completion channel: queries, registrations, and every record the pump
\* can deliver but the definition update, which has no subscribers.
NextChannel ==
    \/ grant_promo_items
    \/ get_all_items
    \/ inventory_result_ready_callback
    \/ inventory_full_update_callback
    \/ \E id \in IssuedIds, code \in ResultCodes : NativeResultReady(id, code)
    \/ PumpNative
    \/ \E rec \in ForeignRecords : PumpForeign(rec)

\* The calls that start asynchronous work, the native service that finishes
\* it, and the pump that tells.
NextSubmit ==
    \/ grant_promo_items
    \/ get_all_items
    \/ load_item_definitions
    \/ \E id \in IssuedIds, code \in ResultCodes : NativeResultReady(id, code)
    \/ \E cat \in Catalogs : NativeDefinitionsLoaded(cat)
    \/ PumpNative

\* The result handles: their issue, their use and their release.
NextHandles ==
    \/ grant_promo_items
    \/ get_all_items
    \/ \E h \in HandleVals : destroy_result(h)
    \/ \E h \in HandleVals, id \in SteamIds : check_steam_id(h, id)

\* The life of a handle value from its making, by a query or by the decoding
\* of an event, to the call that consumes it.
NextLifecycle ==
    \/ grant_promo_items
    \/ get_all_items
    \/ \E h \in HandleVals : destroy_result(h)
    \/ \E h \in HandleVals, id \in SteamIds : check_steam_id(h, id)
    \/ inventory_full_update_callback
    \/ \E id \in IssuedIds : NativeFullUpdate(id)
    \/ PumpNative
    \/ \E i \in Handlers : TakeEventHandle(i)

Next ==
    NextCatalog \/ NextReload \/ NextChannel \/ NextSubmit \/ NextHandles \/ NextLifecycle

Spec == Init /\ [][Next]_vars
SpecCatalog == Init /\ [][NextCatalog]_vars
SpecReload == Init /\ [][NextReload]_vars
SpecChannel == Init /\ [][NextChannel]_vars
SpecSubmit == Init /\ [][NextSubmit]_vars
SpecHandles == Init /\ [][NextHandles]_vars
SpecLifecycle == Init /\ [][NextLifecycle]_vars

\* ------------------------------------------------------------- the claims
\* The text before the terminator of a terminated string.
Unterminated(bytes) == SubSeq(bytes, 1, Len(bytes) - 1)

\* The last call was get_item_definition_property with a name CString::new
\* accepts.
PropertyCall ==
    /\ last.op = "get_item_definition_property"
    /\ CString_new(last.name).kind = "Ok"

\* C1: when the native value of the property is a terminated string s+NUL,
\* get_item_definition_property returns Ok(s): the string with exactly one
\* trailing terminator removed.
C1_RoundTrip ==
    (PropertyCall /\ last.native.ok /\ last.native.bytes # <<>>)
        => /\ last.result.kind = "Ok"
           /\ last.result.val = Unterminated(last.native.bytes)

\* C2: get_item_definitions called while the native catalog is not loaded
\* returns Err(ItemDefinitionsNotLoaded) after a single native call; called
\* after load_item_definitions and the delivery of the definition-update
\* event, it returns Ok.
C2_DefinitionsNeedLoad ==
    last.op = "get_item_definitions"
        => /\ ~last.loaded
                => /\ last.result.kind = "Err"
                   /\ last.result.err = "ItemDefinitionsNotLoaded"
                   /\ last.calls = 1
           /\ (last.loadCalled /\ last.updateFired) => last.result.kind = "Ok"

C2_Witness ==
    /\ last.op = "get_item_definitions"
    /\ last.loadCalled /\ last.updateFired
    /\ last.result.kind = "Ok"

\* The record delivered last is the native result-ready record of a query
\* that was accepted.
ResultReadyDelivered ==
    /\ delivery.status # "none"
    /\ delivery.rec.tag = k_iCallback("SteamInventoryResultReady_t")
    /\ delivery.rec.len = SizeOf("SteamInventoryResultReady_t")
    /\ delivery.rec.raw[1] \in 1..(nextHandle - 1)

\* C3: when the pump delivers the result-ready record of an accepted query
\* with handle h, every handler registered for InventoryResultReady is run
\* exactly once, with an event whose handle is h.
C3_ResultReadyReachesHandlers ==
    ResultReadyDelivered
        => \A i \in DOMAIN delivery.cbs["InventoryResultReady"] :
              LET h == delivery.cbs["InventoryResultReady"][i].id
                  runs == {j \in DOMAIN delivery.calls : delivery.calls[j].handler = h}
              IN /\ Cardinality(runs) = 1
                 /\ \A j \in runs : delivery.calls[j].event.handle = delivery.rec.raw[1]

\* C4: an InventoryResultReady event handed to a handler comes from a record
\* tagged result-ready and carries a handle an earlier query call returned.
C4_ResultReadyEventsAreGenuine ==
    (delivery.status = "dispatched" /\ delivery.type = "InventoryResultReady")
        => \A j \in DOMAIN delivery.calls :
              /\ delivery.rec.tag = k_iCallback("SteamInventoryResultReady_t")
              /\ delivery.calls[j].event.handle \in 1..(nextHandle - 1)

\* C5: the handle returned with accepted = false never has its raw value
\* passed to the native DestroyResult or CheckResultSteamID.
C5_RejectedHandleUnusable ==
    \A call \in nativeLog : call.accepted

\* C6: when the pump delivers a result-ready record, the handlers registered
\* for it run once each, in registration order, whether or not one of them
\* panics.
C6_FanOutInOrder ==
    ResultReadyDelivered
        => [j \in DOMAIN delivery.calls |-> delivery.calls[j].handler]
           = [i \in DOMAIN delivery.cbs["InventoryResultReady"] |->
                 delivery.cbs["InventoryResultReady"][i].id]

\* C7: a handler whose registration call has returned is among the handlers
\* of its event type in every later state.
C7_HandlersStayRegistered ==
    \A h \in Handlers :
        registered[h] # "none"
            => \E i \in DOMAIN callbacks[registered[h]] :
                  callbacks[registered[h]][i].id = h

C7_Witness ==
    /\ \A h \in Handlers : registered[h] = "InventoryFullUpdate"
    /\ delivery.status = "dispatched"
    /\ Len(delivery.calls) = MaxHandlers
    /\ delivery.cbs = callbacks

\* C8: a record tagged as one of the three event kinds whose length is not
\* the size of that kind's struct is not decoded and reaches no handler: the
\* pump counts it as skipped, or knows no event type for its tag.
C8_MalformedRecordRejected ==
    \A T \in EventTypes :
        (/\ delivery.status # "none"
         /\ delivery.rec.tag = k_iCallback(StructOf(T))
         /\ delivery.rec.len # SizeOf(StructOf(T)))
            => /\ delivery.status \in {"malformed", "ignored"}
               /\ delivery.calls = <<>>
               /\ delivery.status = "malformed" => skipped > 0

\* A record was skipped as malformed, and a later one has reached a handler.
C8_Witness ==
    /\ skipped > 0
    /\ delivery.status = "dispatched"
    /\ delivery.calls # <<>>

\* C9: a reported size of 0 gives Ok with an empty value: the empty string
\* from get_item_definition_property, the empty sequence from
\* get_item_definitions.
C9_ZeroLength ==
    /\ (PropertyCall /\ last.native.ok /\ last.native.bytes = <<>>)
          => /\ last.result.kind = "Ok"
             /\ last.result.val = <<>>
    /\ (last.op = "get_item_definitions" /\ last.loaded /\ last.catalog = <<>>)
          => /\ last.result.kind = "Ok"
             /\ last.result.val = <<>>

\* C10: when the size query of get_item_definition_property reports failure,
\* the call returns an error after that one native call.
C10_SizeQueryFailureReturned ==
    (PropertyCall /\ ~last.native.ok)
        => /\ last.result.kind = "Err"
           /\ last.calls = 1

\* The last call was get_item_definitions and made both native calls.
DefinitionsCall ==
    /\ last.op = "get_item_definitions"
    /\ last.calls = 2

\* C11: when the size query of get_item_definition_property succeeds and the
\* fill reports failure, the call reports the failure: an error in a release
\* build, an error or an assertion in a debug build, and never Ok.
C11_FillFailureReported ==
    (PropertyCall /\ last.query.ok /\ ~last.fill.ok)
        => IF debugBuild
           THEN last.result.kind \in {"Err", "Panic"}
           ELSE last.result.kind = "Err"

\* The bytes are not a terminated UTF-8 string: no terminator at the end, a
\* NUL inside, or a byte no UTF-8 text holds.
Undecodable(bytes) ==
    \/ CStr_from_bytes_with_nul(bytes).kind = "Err"
    \/ to_str(bytes).kind = "Err"

\* C12: when the bytes the native side places in the buffer are not a
\* terminated UTF-8 string, get_item_definition_property returns an error and
\* does not panic.
C12_DecodeFailureReturned ==
    (PropertyCall /\ last.query.ok /\ last.fill.ok
        /\ last.fill.size = last.query.size
        /\ Undecodable(last.atFill.bytes))
        => last.result.kind = "Err"

\* C16: with the catalog loaded, get_item_definitions returns Ok with the ids
\* the native side wrote, as many and in the same order.
C16_DefinitionsReturned ==
    (last.op = "get_item_definitions" /\ last.loaded)
        => /\ last.result.kind = "Ok"
           /\ last.result.val = [i \in DOMAIN last.catalog |->
                                    InventoryItemDefinition(last.catalog[i])]

\* C17: when the second native call of a two-phase read reports another size
\* than the first, the read is rejected with an error.
C17_StaleSizeRejected ==
    /\ (PropertyCall /\ last.query.ok /\ last.fill.ok
            /\ last.fill.size # last.query.size)
          => last.result.kind = "Err"
    /\ (DefinitionsCall /\ last.second.ok /\ last.second.count # last.first.count)
          => last.result.kind = "Err"

\* C18: when the first enumeration call of get_item_definitions succeeds and
\* the second reports failure, the call does not return Ok, in any build.
C18_RefillFailureSurfaced ==
    (DefinitionsCall /\ ~last.second.ok) => last.result.kind # "Ok"

\* C19: the only panic of a facade call is the assertion on a failed second
\* call after a successful first one.
C19_NoPanic ==
    panicked => last.result.why = "debug_assert!(items_were_loaded)"

\* C13: check_steam_id only reads: the handle passed to it is still the
\* caller's afterwards and can still be released with destroy_result.
C13_CheckKeepsHandle ==
    (last.op = "check_steam_id" /\ last.handle.accepted)
        => /\ held[last.handle] > 0
           /\ ENABLED destroy_result(last.handle)

\* C14: every destroy_result call forwards one native destroy for the raw
\* value of its handle, whatever was released before, and leaves the
\* registered handlers, the other handle values and the native calls for
\* other raw values as they were.
C14_ReleaseForwardsOnce ==
    [][\A h \in HandleVals :
          destroy_result(h) =>
              /\ nativeCalls' = [nativeCalls EXCEPT !["DestroyResult", h.id] = @ + 1]
              /\ UNCHANGED <<callbacks, registered, issued>>
              /\ \A v \in HandleVals \ {h} : held'[v] = held[v]]_vars

\* Two equal handles have been released while a handler is registered.
C14_Witness ==
    /\ nativeCalls["DestroyResult", 1] = 2
    /\ callbacks["InventoryFullUpdate"] # <<>>
    /\ last.op = "destroy_result"

\* A call that starts asynchronous work.
SubmitCall == grant_promo_items \/ get_all_items \/ load_item_definitions

\* C15: grant_promo_items, get_all_items and load_item_definitions return in
\* the step of their native call: they can be made whatever the pump has yet
\* to deliver, nothing is delivered within them, and the completion of an
\* accepted query is still outstanding when they return.
C15_NonBlocking ==
    /\ [][SubmitCall =>
            /\ UNCHANGED <<queue, delivery, skipped, defUpdateFired, loaded>>
            /\ last'.op \in {"grant_promo_items", "get_all_items"}
                  => /\ last'.result.kind = "Ok"
                     /\ last'.result.val.accepted
                           => last'.result.val.handle \in pending']_vars
    /\ [](~panicked => ENABLED load_item_definitions)
    /\ []((~panicked /\ HeldCount < MaxQueries /\ IssuedCount < MaxIssued)
              => (ENABLED grant_promo_items /\ ENABLED get_all_items))

\* get_all_items has returned an accepted handle while a record waits for the
\* pump and nothing has been delivered yet.
C15_Witness ==
    /\ last.op = "get_all_items"
    /\ last.result.val.accepted
    /\ last.result.val.handle \in pending
    /\ queue # <<>>
    /\ delivery.status = "none"

\* C20: for every raw id, the native destroy and check-owner calls made with
\* it are no more than the handle values made with it by queries and events.
C20_HandleLinearity ==
    \A id \in RawIds :
        nativeCalls["DestroyResult", id] + nativeCalls["CheckResultSteamID", id]
            <= issued[id]

\* A handle from a query and a handle from an event, of the same raw id, have
\* both been consumed, one by each call.
C20_Witness ==
    /\ issued[1] = 2
    /\ nativeCalls["DestroyResult", 1] = 1
    /\ nativeCalls["CheckResultSteamID", 1] = 1
    /\ taken # {}

====
